---- MODULE Spec2Model ----
(***************************************************************************)
(* ETOPS Airline Strategy Game (src/app.py): the scoring engine            *)
(* (calculate_game_score), the title classifier (get_title_and_badge),     *)
(* the route analysis that feeds them, the 10-route challenge kept in the  *)
(* Streamlit session state, the route geometry                             *)
(* (calculate_etops_requirement) and the mode selector.                    *)
(*                                                                         *)
(* Numbers.  Python floats are modelled as exact rationals [num, den]      *)
(* (den > 0) and compared by cross-multiplication.  aircraft_sdg_score is  *)
(* given in tenths (82 stands for 8.2).  Where the IEEE double result of a *)
(* computation differs from the exact value in a way round() can see (an   *)
(* exact tie x.5), the deviation is recorded by aircraft_bias, total_bias.  *)
(***************************************************************************)
EXTENDS Integers, Sequences, FiniteSets, TLC

VARIABLES
    pc,                     \* the handler that ran last ("restart": a start
                            \* that discarded progress)
    args,                   \* arguments of the calculate_game_score call
    passengers,             \* route analysis: passenger count
    aircraft,               \* route analysis: the selected aircraft row
    route,                  \* route analysis: the selected departure/arrival
    score,                  \* argument of get_title_and_badge
    score_data,             \* value returned by calculate_game_score
    title_data,             \* value returned by get_title_and_badge
    game_mode,              \* st.session_state.game_mode
    challenge_routes,       \* st.session_state.challenge_routes
    current_route_index,    \* st.session_state.current_route_index
    challenge_total_score,  \* st.session_state.challenge_total_score
    avg_score,              \* average reported when the challenge completes
    airports_df,            \* calculate_etops_requirement: the airport table
    dep_coord,              \* (Latitude, Longitude) of the departure
    arr_coord,              \* (Latitude, Longitude) of the arrival
    etops_check             \* etops_required_min and etops_compliant

vars == <<pc, args, passengers, aircraft, route, score, score_data, title_data,
          game_mode, challenge_routes, current_route_index,
          challenge_total_score, avg_score,
          airports_df, dep_coord, arr_coord, etops_check>>

geoVars == <<airports_df, dep_coord, arr_coord, etops_check>>

challengeVars == <<game_mode, challenge_routes, current_route_index,
                   challenge_total_score, avg_score>>

(***************************************************************************)
(* Bounds of the model.                                                    *)
(***************************************************************************)
\* how far around each threshold, and beyond each end of a documented
\* domain, the inputs of the scoring functions are drawn
Margin == 1

\* largest seat count of an aircraft row in the route analysis
MaxCapacity == 10

(***************************************************************************)
(* Rationals.                                                              *)
(***************************************************************************)
Rat(n, d) == [num |-> n, den |-> d]

\* r <= k and r >= k for a rational r (r.den > 0) and an integer k
RatLeq(r, k) == r.num <= k * r.den

RatGeq(r, k) == r.num >= k * r.den

\* r1 <= r2
RatLe(r1, r2) == r1.num * r2.den <= r2.num * r1.den

\* float('inf'): a distance above every distance between two points
inf == 1000000

(***************************************************************************)
(* round(): Python rounds to the nearest integer, an exact tie to the even *)
(* neighbour.  bias is the sign of (double result - exact value) at a tie: *)
(* a double just below x.5 rounds down, one just above rounds up.          *)
(***************************************************************************)
round(r, bias) ==
    LET f == r.num \div r.den
        rem2 == 2 * (r.num - f * r.den)
    IN  IF rem2 > r.den THEN f + 1
        ELSE IF rem2 < r.den THEN f
        ELSE IF bias > 0 THEN f + 1
        ELSE IF bias < 0 THEN f
        ELSE IF f % 2 = 0 THEN f ELSE f + 1

\* (aircraft_sdg_score / 10) * 25 in doubles, for aircraft_sdg_score = s/10:
\* the ties whose double lies below / above the exact value
AircraftBelow == {14, 58, 66}

AircraftAbove == {22, 42, 98, 110}

aircraft_bias(s) ==
    IF s \in AircraftBelow THEN -1 ELSE IF s \in AircraftAbove THEN 1 ELSE 0

\* base + aircraft_score in doubles: adding the integer base absorbs the
\* deviation except for the two smallest sums at s = 66
total_bias(base, s) ==
    IF base = 0 THEN aircraft_bias(s)
    ELSE IF s = 66 /\ base \in {10, 15} THEN -1
    ELSE 0

(***************************************************************************)
(* calculate_game_score                                                    *)
(***************************************************************************)
etops_score(etops_compliant) == IF etops_compliant THEN 25 ELSE 0

env_score_lt(co2_per_passenger) ==
    IF ~RatGeq(co2_per_passenger, 50) THEN 25
    ELSE IF ~RatGeq(co2_per_passenger, 100) THEN 20
    ELSE IF ~RatGeq(co2_per_passenger, 150) THEN 15
    ELSE IF ~RatGeq(co2_per_passenger, 200) THEN 10
    ELSE 5

env_score(co2_per_passenger) ==
    IF RatLeq(co2_per_passenger, 50) THEN 25
    ELSE IF RatLeq(co2_per_passenger, 100) THEN 20
    ELSE IF RatLeq(co2_per_passenger, 150) THEN 15
    ELSE IF RatLeq(co2_per_passenger, 200) THEN 10
    ELSE 5

\* the bands written the way env_score writes its own
eff_score_descending(capacity_utilization) ==
    IF RatLeq(capacity_utilization, 60) THEN 25
    ELSE IF RatLeq(capacity_utilization, 70) THEN 20
    ELSE IF RatLeq(capacity_utilization, 80) THEN 15
    ELSE IF RatLeq(capacity_utilization, 90) THEN 10
    ELSE 5

eff_score(capacity_utilization) ==
    IF RatGeq(capacity_utilization, 90) THEN 25
    ELSE IF RatGeq(capacity_utilization, 80) THEN 20
    ELSE IF RatGeq(capacity_utilization, 70) THEN 15
    ELSE IF RatGeq(capacity_utilization, 60) THEN 10
    ELSE 5

\* (aircraft_sdg_score / 10) * 25, aircraft_sdg_score in tenths
aircraft_score_x2(aircraft_sdg_score) == Rat(aircraft_sdg_score * 50, 100)

aircraft_score(aircraft_sdg_score) == Rat(aircraft_sdg_score * 25, 100)

\* the total built from the rounded aircraft score
calculate_game_score_rounded_parts(e, co2, util, sdg) ==
    LET base == etops_score(e) + env_score(co2) + eff_score(util)
        a == aircraft_score(sdg)
    IN  [raised |-> "none",
         total_score |-> base + round(a, aircraft_bias(sdg)),
         etops_score |-> etops_score(e),
         environmental_score |-> env_score(co2),
         efficiency_score |-> eff_score(util),
         aircraft_score |-> round(a, aircraft_bias(sdg))]

\* calculate_game_score(etops_compliant, co2_per_passenger,
\* capacity_utilization, aircraft_sdg_score).  The function never raises:
\* whatever the arguments, it returns the dict.
calculate_game_score(e, co2, util, sdg) ==
    LET base == etops_score(e) + env_score(co2) + eff_score(util)
        a == aircraft_score(sdg)
        total_score == Rat(base * a.den + a.num, a.den)
    IN  [raised |-> "none",
         total_score |-> round(total_score, total_bias(base, sdg)),
         etops_score |-> etops_score(e),
         environmental_score |-> env_score(co2),
         efficiency_score |-> eff_score(util),
         aircraft_score |-> round(a, aircraft_bias(sdg))]

(***************************************************************************)
(* get_title_and_badge                                                     *)
(***************************************************************************)
get_title_and_badge_gt(s) ==
    IF s > 90 THEN [tier |-> "Legend", badge |-> "star", color |-> "success"]
    ELSE IF s > 80 THEN [tier |-> "Expert", badge |-> "gold", color |-> "success"]
    ELSE IF s > 70 THEN [tier |-> "Intermediate", badge |-> "silver", color |-> "warning"]
    ELSE IF s > 60 THEN [tier |-> "Beginner", badge |-> "bronze", color |-> "warning"]
    ELSE [tier |-> "Apprentice", badge |-> "warning", color |-> "error"]

get_title_and_badge(s) ==
    IF s >= 90 THEN [tier |-> "Legend", badge |-> "star", color |-> "success"]
    ELSE IF s >= 80 THEN [tier |-> "Expert", badge |-> "gold", color |-> "success"]
    ELSE IF s >= 70 THEN [tier |-> "Intermediate", badge |-> "silver", color |-> "warning"]
    ELSE IF s >= 60 THEN [tier |-> "Beginner", badge |-> "bronze", color |-> "warning"]
    ELSE [tier |-> "Apprentice", badge |-> "warning", color |-> "error"]

(***************************************************************************)
(* Values before any call.                                                 *)
(***************************************************************************)
NoArgs == [etops_compliant |-> FALSE, co2_per_passenger |-> Rat(0, 1),
           capacity_utilization |-> Rat(0, 1), aircraft_sdg_score |-> 0]

NoScore == [raised |-> "none", total_score |-> 0, etops_score |-> 0,
            environmental_score |-> 0, efficiency_score |-> 0,
            aircraft_score |-> 0]

NoTitle == [tier |-> "none", badge |-> "none", color |-> "none"]

NoAircraft == [Capacity |-> 1, Speed |-> 1, ETOPS |-> 0, CO2_kg_per_km |-> 0,
               SDG_Score |-> 0]

NoRoute == [route_distance |-> 0, etops_required_km |-> 0]

ChallengeIdle ==
    /\ game_mode = "route_planning"
    /\ challenge_routes = <<>>
    /\ current_route_index = 0
    /\ challenge_total_score = 0
    /\ avg_score = Rat(0, 1)

NoCheck == [raised |-> "none", etops_required_min |-> Rat(0, 1),
            etops_compliant |-> FALSE]

GeoIdle ==
    /\ airports_df = {}
    /\ dep_coord = <<0, 0>>
    /\ arr_coord = <<0, 0>>
    /\ etops_check = NoCheck

(***************************************************************************)
(* The scoring functions on their own: the arguments are drawn in the      *)
(* initial state, inside and outside their documented domains.             *)
(***************************************************************************)
Around(t) == (t - Margin)..(t + Margin)

Co2Values == Around(0) \cup Around(50) \cup Around(100) \cup Around(150)
             \cup Around(200)

UtilValues == Around(0) \cup Around(60) \cup Around(70) \cup Around(80)
              \cup Around(90) \cup Around(100)

SdgValues == (0 - Margin)..(100 + Margin)

ScoreValues == (0 - Margin)..(100 + Margin)

InitScore ==
    /\ \/ /\ pc = "call"
          /\ \E e \in BOOLEAN, c \in Co2Values, u \in UtilValues, s \in SdgValues :
                args = [etops_compliant |-> e, co2_per_passenger |-> Rat(c, 1),
                        capacity_utilization |-> Rat(u, 1),
                        aircraft_sdg_score |-> s]
          /\ score = 0
       \/ /\ pc = "classify"
          /\ args = NoArgs
          /\ score \in ScoreValues
    /\ passengers = 0
    /\ aircraft = NoAircraft
    /\ route = NoRoute
    /\ score_data = NoScore
    /\ title_data = NoTitle
    /\ ChallengeIdle
    /\ GeoIdle

CalculateGameScore ==
    /\ pc = "call"
    /\ score_data' = calculate_game_score(args.etops_compliant,
                                          args.co2_per_passenger,
                                          args.capacity_utilization,
                                          args.aircraft_sdg_score)
    /\ score' = score_data'.total_score
    /\ pc' = "scored"
    /\ UNCHANGED <<args, passengers, aircraft, route, title_data>>
    /\ UNCHANGED challengeVars
    /\ UNCHANGED geoVars

GetTitleAndBadge ==
    /\ pc \in {"scored", "classify"}
    /\ title_data' = get_title_and_badge(score)
    /\ pc' = "titled"
    /\ UNCHANGED <<args, passengers, aircraft, route, score, score_data>>
    /\ UNCHANGED challengeVars
    /\ UNCHANGED geoVars

NextScore == CalculateGameScore \/ GetTitleAndBadge

SpecScore == InitScore /\ [][NextScore]_vars

(***************************************************************************)
(* Claims about the scoring functions (checked under SpecScore).           *)
(***************************************************************************)
\* the documented domain of the score operation
InDomain(a) ==
    /\ RatGeq(a.co2_per_passenger, 0)
    /\ RatGeq(a.capacity_utilization, 0)
    /\ RatLeq(a.capacity_utilization, 100)
    /\ a.aircraft_sdg_score \in 0..100

ScoreOf(a) ==
    calculate_game_score(a.etops_compliant, a.co2_per_passenger,
                         a.capacity_utilization, a.aircraft_sdg_score)

\* C1: for every in-domain input the returned total_score lies in 0..100
\* and each of the four sub-scores lies in 0..25.
C1_ScoreInRange ==
    (pc = "scored" /\ InDomain(args)) =>
        /\ score_data.total_score \in 0..100
        /\ score_data.etops_score \in 0..25
        /\ score_data.environmental_score \in 0..25
        /\ score_data.efficiency_score \in 0..25
        /\ score_data.aircraft_score \in 0..25

C1_Witness ==
    /\ pc = "scored"
    /\ InDomain(args)
    /\ score_data.total_score = 100
    /\ score_data.aircraft_score = 25

\* the in-domain calls that differ from a in one argument, which is larger
WithEtops(a) ==
    {[a EXCEPT !.etops_compliant = TRUE]}

WithMoreCo2(a) ==
    {[a EXCEPT !.co2_per_passenger = Rat(c, 1)] :
        c \in {c \in Co2Values : c >= 0 /\ RatLeq(a.co2_per_passenger, c)}}

WithMoreUtilization(a) ==
    {[a EXCEPT !.capacity_utilization = Rat(u, 1)] :
        u \in {u \in UtilValues :
                  u \in 0..100 /\ RatLeq(a.capacity_utilization, u)}}

WithMoreSdg(a) ==
    {[a EXCEPT !.aircraft_sdg_score = s] :
        s \in {s \in SdgValues : s \in 0..100 /\ a.aircraft_sdg_score <= s}}

\* C2 (as stated): raising any one of the four inputs, the other three held
\* fixed, never lowers total_score.
C2_MonotoneInAllFour ==
    (pc = "scored" /\ InDomain(args)) =>
        \A b \in WithEtops(args) \cup WithMoreCo2(args)
                 \cup WithMoreUtilization(args) \cup WithMoreSdg(args) :
            score_data.total_score <= ScoreOf(b).total_score

\* C2 (amended): total_score never drops when etops_compliant goes from
\* false to true or when capacity_utilization or aircraft_sdg_score grows,
\* and never rises when co2_per_passenger grows.
C2_MonotoneWithCo2Reversed ==
    (pc = "scored" /\ InDomain(args)) =>
        /\ \A b \in WithEtops(args) \cup WithMoreUtilization(args)
                    \cup WithMoreSdg(args) :
              score_data.total_score <= ScoreOf(b).total_score
        /\ \A b \in WithMoreCo2(args) :
              score_data.total_score >= ScoreOf(b).total_score

\* a scored in-domain call at co2 = 50 whose total is strictly above the
\* total of the same call at co2 = 51, and strictly below the total of the
\* same call one utilisation band higher
C2_Witness ==
    /\ pc = "scored"
    /\ InDomain(args)
    /\ args.co2_per_passenger = Rat(50, 1)
    /\ args.capacity_utilization = Rat(89, 1)
    /\ score_data.total_score
         > ScoreOf([args EXCEPT !.co2_per_passenger = Rat(51, 1)]).total_score
    /\ score_data.total_score
         < ScoreOf([args EXCEPT !.capacity_utilization = Rat(90, 1)]).total_score

TierRank(tier) ==
    CASE tier = "Legend" -> 4
      [] tier = "Expert" -> 3
      [] tier = "Intermediate" -> 2
      [] tier = "Beginner" -> 1
      [] OTHER -> 0

\* C3: on 0..100 the tier is Legend from 90, Expert on 80..89, Intermediate
\* on 70..79, Beginner on 60..69 and the lowest tier below 60; a higher
\* score never yields a lower tier.
C3_TitlePartition ==
    (pc = "titled" /\ score \in 0..100) =>
        /\ title_data.tier = "Legend" <=> score >= 90
        /\ title_data.tier = "Expert" <=> score \in 80..89
        /\ title_data.tier = "Intermediate" <=> score \in 70..79
        /\ title_data.tier = "Beginner" <=> score \in 60..69
        /\ title_data.tier = "Apprentice" <=> score < 60
        /\ \A s2 \in 0..100 :
              s2 >= score =>
                  TierRank(get_title_and_badge(s2).tier)
                      >= TierRank(title_data.tier)

C3_Witness ==
    /\ pc = "titled"
    /\ score = 90
    /\ title_data.tier = "Legend"

\* C8 (as stated): a call with an argument outside its documented domain
\* fails with InvalidInputError and returns no score.
C8_InvalidInputRejected ==
    (pc = "scored" /\ ~InDomain(args)) =>
        score_data.raised = "InvalidInputError"

\* C9: environmental_score is 25 up to 50 kg, 20 up to 100, 15 up to 150,
\* 10 up to 200 and 5 above; 50, 100, 150 and 200 get the higher value.
C9_EnvironmentalBands ==
    (pc = "scored" /\ args.co2_per_passenger.den = 1) =>
        LET c == args.co2_per_passenger.num
        IN  /\ c <= 50 => score_data.environmental_score = 25
            /\ (50 < c /\ c <= 100) => score_data.environmental_score = 20
            /\ (100 < c /\ c <= 150) => score_data.environmental_score = 15
            /\ (150 < c /\ c <= 200) => score_data.environmental_score = 10
            /\ c > 200 => score_data.environmental_score = 5

C9_Witness ==
    /\ pc = "scored"
    /\ args.co2_per_passenger = Rat(200, 1)
    /\ score_data.environmental_score = 10

(***************************************************************************)
(* Route planning mode: the widgets (aircraft, departure/arrival,          *)
(* passengers) and the route analysis every script run performs with       *)
(* their values.  The aircraft table (data/aircraft.csv) and the airports  *)
(* are data: the rows below are the inputs of the model.  A route stands   *)
(* for a departure/arrival pair with departure # arrival, given by the     *)
(* two distances the analysis derives from it: geodesic(dep, arr).km and   *)
(* calculate_etops_requirement(dep, arr, airports_df).                     *)
(***************************************************************************)
AircraftRows ==
    [Capacity : 1..MaxCapacity, Speed : {900}, ETOPS : {120, 180},
     CO2_kg_per_km : {1}, SDG_Score : {50, 82}]

Routes ==
    [route_distance : {100, 500}, etops_required_km : {1800, 2701}]

\* value of st.number_input("...", 1, Capacity, min(200, Capacity)) when the
\* widget is created
DefaultPassengers == 200

default_passengers(a) ==
    IF DefaultPassengers < a.Capacity THEN DefaultPassengers ELSE a.Capacity

\* calculate_sdg_impact: co2_per_passenger
co2_per_passenger(a, distance_km, p) ==
    LET total_co2 == distance_km * a.CO2_kg_per_km
    IN  IF p > 0 THEN Rat(total_co2, p) ELSE Rat(total_co2, 1)

\* (etops_required_km / aircraft['Speed']) * 60 for a Speed other than 0;
\* the denominator is kept positive, and inf / Speed * 60 is inf or -inf
etops_required_min(a, r) ==
    LET km == r.etops_required_km
    IN  IF km = inf
        THEN Rat(IF a.Speed > 0 THEN inf ELSE 0 - inf, 1)
        ELSE IF a.Speed > 0
             THEN Rat(km * 60, a.Speed)
             ELSE Rat(0 - km * 60, 0 - a.Speed)

etops_compliant(a, r) == RatLeq(etops_required_min(a, r), a.ETOPS)

capacity_utilization_ratio(a, p) == Rat(p, a.Capacity)

\* (passengers / aircraft['Capacity']) * 100
capacity_utilization(a, p) == Rat(p * 100, a.Capacity)

\* the arguments the route analysis passes to calculate_game_score
analysis_args(a, r, p) ==
    [etops_compliant |-> etops_compliant(a, r),
     co2_per_passenger |-> co2_per_passenger(a, r.route_distance, p),
     capacity_utilization |-> capacity_utilization(a, p),
     aircraft_sdg_score |-> a.SDG_Score]

\* one script run with aircraft a, route r and passengers p selected
RouteAnalysis(a, r, p) ==
    /\ aircraft' = a
    /\ route' = r
    /\ passengers' = p
    /\ args' = analysis_args(a, r, p)
    /\ score_data' = calculate_game_score(args'.etops_compliant,
                                          args'.co2_per_passenger,
                                          args'.capacity_utilization,
                                          args'.aircraft_sdg_score)
    /\ score' = score_data'.total_score
    /\ title_data' = get_title_and_badge(score')
    /\ pc' = "analyzed"

InitRoute ==
    /\ pc = "analyzed"
    /\ aircraft \in AircraftRows
    /\ route \in Routes
    /\ passengers = default_passengers(aircraft)
    /\ args = analysis_args(aircraft, route, passengers)
    /\ score_data = calculate_game_score(args.etops_compliant,
                                         args.co2_per_passenger,
                                         args.capacity_utilization,
                                         args.aircraft_sdg_score)
    /\ score = score_data.total_score
    /\ title_data = get_title_and_badge(score)
    /\ ChallengeIdle
    /\ GeoIdle

\* another aircraft is selected: the passengers widget is created anew
\* when its bounds change, and then holds its default
SelectAircraft ==
    /\ \E a \in AircraftRows :
          /\ a # aircraft
          /\ RouteAnalysis(a, route,
                           IF a.Capacity = aircraft.Capacity
                           THEN passengers ELSE default_passengers(a))
    /\ UNCHANGED challengeVars
    /\ UNCHANGED geoVars

SelectRoute ==
    /\ \E r \in Routes : r # route /\ RouteAnalysis(aircraft, r, passengers)
    /\ UNCHANGED challengeVars
    /\ UNCHANGED geoVars

EnterPassengers ==
    /\ \E p \in 1..aircraft.Capacity :
          p # passengers /\ RouteAnalysis(aircraft, route, p)
    /\ UNCHANGED challengeVars
    /\ UNCHANGED geoVars

NextRoute == SelectAircraft \/ SelectRoute \/ EnterPassengers

SpecRoute == InitRoute /\ [][NextRoute]_vars

\* C10: for 0 < passengers <= capacity the efficiency sub-score of the route
\* analysis is 25 from 90% utilisation, 20 from 80%, 15 from 70%, 10 from
\* 60% and 5 below; 90%, 80%, 70% and 60% get the higher value.
C10_EfficiencyBands ==
    (pc = "analyzed" /\ 0 < passengers /\ passengers <= aircraft.Capacity) =>
        LET p == passengers
            c == aircraft.Capacity
        IN  /\ 10 * p >= 9 * c => score_data.efficiency_score = 25
            /\ (10 * p < 9 * c /\ 10 * p >= 8 * c)
                   => score_data.efficiency_score = 20
            /\ (10 * p < 8 * c /\ 10 * p >= 7 * c)
                   => score_data.efficiency_score = 15
            /\ (10 * p < 7 * c /\ 10 * p >= 6 * c)
                   => score_data.efficiency_score = 10
            /\ 10 * p < 6 * c => score_data.efficiency_score = 5

C10_Witness ==
    /\ pc = "analyzed"
    /\ 0 < passengers
    /\ passengers < aircraft.Capacity
    /\ 10 * passengers = 9 * aircraft.Capacity
    /\ score_data.efficiency_score = 25

(***************************************************************************)
(* The 10-route challenge (the branch game_mode == "challenge_10_routes"). *)
(* The session keeps challenge_routes, current_route_index and             *)
(* challenge_total_score.  SpecChallenge describes the branch once it is   *)
(* entered: game_mode holds the value the branch tests for.  Before the    *)
(* first start the session holds no routes (NotStarted).                   *)
(*                                                                         *)
(* generate_challenge_routes and calculate_route_score_detailed are called *)
(* but not defined in src/app.py; they are modelled from the               *)
(* specification: ten descriptors, all incomplete, and the base score plus *)
(* a distance bonus of at most 5.                                          *)
(***************************************************************************)
Difficulties == {"easy", "medium", "hard"}

\* the rows of the aircraft table offered in the challenge
ChallengeAircraftRows ==
    {[Capacity |-> 10, Speed |-> 900, ETOPS |-> 180, CO2_kg_per_km |-> 1,
      SDG_Score |-> 82],
     [Capacity |-> 5, Speed |-> 900, ETOPS |-> 120, CO2_kg_per_km |-> 1,
      SDG_Score |-> 50]}

RouteList ==
    <<[route_distance |-> 100, etops_required_km |-> 1800],
      [route_distance |-> 500, etops_required_km |-> 2701],
      [route_distance |-> 500, etops_required_km |-> 1800],
      [route_distance |-> 100, etops_required_km |-> 2701]>>

challenge_passengers(difficulty) ==
    CASE difficulty = "easy" -> 5
      [] difficulty = "medium" -> 8
      [] OTHER -> 10

generate_challenge_routes(n, difficulty) ==
    [i \in 1..n |->
        [route_num |-> i,
         route |-> RouteList[((i - 1) % Len(RouteList)) + 1],
         passengers |-> challenge_passengers(difficulty),
         completed |-> FALSE,
         score |-> 0]]

distance_bonus(route_distance) == IF route_distance >= 500 THEN 5 ELSE 0

calculate_route_score_detailed(e, co2, util, sdg, route_distance) ==
    LET s == calculate_game_score(e, co2, util, sdg)
    IN  [raised |-> s.raised,
         total_score |-> s.total_score + distance_bonus(route_distance),
         etops_score |-> s.etops_score,
         environmental_score |-> s.environmental_score,
         efficiency_score |-> s.efficiency_score,
         aircraft_score |-> s.aircraft_score,
         distance_bonus |-> distance_bonus(route_distance)]

\* number of routes of a challenge
NumRoutesPlusOne == 10 + 1

NumRoutes == 10

\* the values the start handler stores
start_total_kept == challenge_total_score

start_total == 0

start_index_kept == current_route_index

start_index == 0

\* st.session_state.challenge_total_score += score_data['total_score']
add_score_dropped(total, s) == total

add_score(total, s) == total + s

\* st.session_state.current_route_index += 1
next_index_stuck(i) == i

next_index(i) == i + 1

\* avg_score = st.session_state.challenge_total_score / 10
average_per_completed(total) == Rat(total, current_route_index)

average(total) == Rat(total, 10)

\* the entry at the current index (Python indexes from 0)
current_route == challenge_routes[current_route_index + 1]

\* the route analysis is reached and offers the complete button: the mode,
\* a started challenge and a current route (departure and arrival set)
can_complete ==
    /\ game_mode = "challenge_10_routes"
    /\ challenge_routes # <<>>
    /\ current_route_index < Len(challenge_routes)

InitChallenge ==
    /\ pc = "idle"
    /\ game_mode = "challenge_10_routes"
    /\ challenge_routes = <<>>
    /\ current_route_index = 0
    /\ challenge_total_score = 0
    /\ avg_score = Rat(0, 1)
    /\ args = NoArgs
    /\ passengers = 0
    /\ aircraft = NoAircraft
    /\ route = NoRoute
    /\ score = 0
    /\ score_data = NoScore
    /\ title_data = NoTitle
    /\ GeoIdle

\* the button "start a new challenge"
StartChallenge ==
    /\ game_mode = "challenge_10_routes"
    /\ \E difficulty \in Difficulties :
          challenge_routes' = generate_challenge_routes(NumRoutes, difficulty)
    /\ current_route_index' = start_index
    /\ challenge_total_score' = start_total
    /\ pc' = IF current_route_index > 0 THEN "restart" ELSE "start"
    /\ UNCHANGED <<game_mode, avg_score, args, passengers, aircraft, route,
                   score, score_data, title_data>>
    /\ UNCHANGED geoVars

\* the button "complete this route", pressed with aircraft a selected
CompleteRoute ==
    /\ can_complete
    /\ \E a \in ChallengeAircraftRows :
          /\ aircraft' = a
          /\ route' = current_route.route
          /\ passengers' = current_route.passengers
          /\ args' = analysis_args(a, route', passengers')
          /\ score_data' = calculate_route_score_detailed(
                               args'.etops_compliant, args'.co2_per_passenger,
                               args'.capacity_utilization,
                               args'.aircraft_sdg_score, route'.route_distance)
    /\ score' = score_data'.total_score
    /\ title_data' = get_title_and_badge(score')
    /\ challenge_routes' =
          [challenge_routes EXCEPT
              ![current_route_index + 1] =
                  [@ EXCEPT !.completed = TRUE, !.score = score']]
    /\ challenge_total_score' = add_score(challenge_total_score, score')
    /\ current_route_index' = next_index(current_route_index)
    /\ avg_score' = IF current_route_index' >= Len(challenge_routes)
                    THEN average(challenge_total_score')
                    ELSE avg_score
    /\ pc' = "complete"
    /\ UNCHANGED game_mode
    /\ UNCHANGED geoVars

NextChallenge == StartChallenge \/ CompleteRoute

SpecChallenge == InitChallenge /\ [][NextChallenge]_vars

(***************************************************************************)
(* Claims about the challenge (checked under SpecChallenge).               *)
(***************************************************************************)
RECURSIVE SumScores(_, _)
\* sum of the score field over the entries among the first n of routes
\* that pass the filter: all of them, or only the completed ones
SumScores(routes, onlyCompleted) ==
    IF routes = <<>> THEN 0
    ELSE LET r == routes[Len(routes)]
         IN  SumScores(SubSeq(routes, 1, Len(routes) - 1), onlyCompleted)
             + (IF onlyCompleted /\ ~r.completed THEN 0 ELSE r.score)

CompletedEntries ==
    {i \in 1..Len(challenge_routes) : challenge_routes[i].completed}

Started == challenge_routes # <<>>

\* C4: in every reachable state of the challenge the running total equals
\* the sum of score over the entries marked complete.
C4_TotalIsSumOfCompleted ==
    challenge_total_score = SumScores(challenge_routes, TRUE)

\* a challenge was finished, a new one started, and routes of the new one
\* are complete: the total counts the new entries only
C4_Witness ==
    /\ pc = "complete"
    /\ avg_score # Rat(0, 1)
    /\ current_route_index \in 1..9
    /\ challenge_total_score > 0
    /\ challenge_total_score < avg_score.num

\* C5: after start and 10 completions the challenge is Completed (index 10,
\* every entry complete), the total is the sum of the ten scores and the
\* reported average is that sum over 10; with fewer completions the index
\* is below 10.
C5_TenCompletions ==
    /\ Started => current_route_index = Cardinality(CompletedEntries)
    /\ (Started /\ current_route_index = 10)
          <=> (Len(challenge_routes) = 10
               /\ CompletedEntries = 1..10)
    /\ (Started /\ current_route_index = 10) =>
          /\ challenge_total_score = SumScores(challenge_routes, FALSE)
          /\ avg_score = Rat(SumScores(challenge_routes, FALSE), 10)

C5_Witness ==
    /\ pc = "complete"
    /\ current_route_index = 10
    /\ CompletedEntries = 1..10
    /\ challenge_routes[1].score # challenge_routes[2].score
    /\ avg_score.num = challenge_total_score
    /\ avg_score.den = 10

\* C6: complete-current-route can fire only while a challenge is started
\* and the index is below 10; once the index is 10, the index, the total
\* and every entry change only by a start.
C6_CompleteOnlyInProgress ==
    /\ [](ENABLED CompleteRoute => (Started /\ current_route_index < 10))
    /\ [][(Started /\ current_route_index = 10) =>
             \/ StartChallenge
             \/ UNCHANGED <<challenge_routes, current_route_index,
                            challenge_total_score>>]_vars

C6_Witness ==
    /\ Started
    /\ current_route_index = 10
    /\ ~ENABLED CompleteRoute
    /\ ENABLED StartChallenge

\* C7: start is enabled in every state of the challenge, and every start
\* leaves 10 entries, all incomplete, index 0 and total 0.
C7_StartAlwaysResets ==
    /\ [](game_mode = "challenge_10_routes" => ENABLED StartChallenge)
    /\ [][StartChallenge =>
             /\ Len(challenge_routes') = 10
             /\ \A i \in 1..Len(challenge_routes') :
                   ~challenge_routes'[i].completed
             /\ current_route_index' = 0
             /\ challenge_total_score' = 0]_vars

\* a start that discarded progress
C7_Witness ==
    /\ pc = "restart"
    /\ Len(challenge_routes) = 10
    /\ CompletedEntries = {}
    /\ current_route_index = 0
    /\ challenge_total_score = 0

(***************************************************************************)
(* Route geometry: calculate_etops_requirement and the ETOPS check of the  *)
(* route analysis.  Coordinates are whole degrees; the airports lie on a   *)
(* 20-degree grid, so that the 21 sample points dep + (i / 20) * (arr -    *)
(* dep) are whole degrees too.  data/airports.csv is not part of the       *)
(* source: the table is an input.                                          *)
(***************************************************************************)
AirportRows ==
    { [Latitude |-> 40, Longitude |-> 140],
      [Latitude |-> 40, Longitude |-> -120],
      [Latitude |-> 60, Longitude |-> 0],
      [Latitude |-> 0, Longitude |-> -60],
      [Latitude |-> -20, Longitude |-> 100] }

\* (airport['Latitude'], airport['Longitude'])
coord(airport) == <<airport.Latitude, airport.Longitude>>

Abs(x) == IF x < 0 THEN 0 - x ELSE x

\* geopy's geodesic(p, q).km, which is not part of the source: a metric on
\* (latitude, longitude) pairs in which longitude is cyclic (180 and -180
\* are the same meridian), 111 km to the degree
geodesic(p, q) ==
    LET dlat == Abs(p[1] - q[1])
        dlon == Abs(p[2] - q[2]) % 360
    IN  111 * (dlat + (IF dlon > 180 THEN 360 - dlon ELSE dlon))

min(a, b) == IF a <= b THEN a ELSE b

max(a, b) == IF a >= b THEN a ELSE b

\* range(20): the arrival point is not sampled
num_points_without_arrival == 21 - 1

\* range(21)
num_points == 21

\* ratio = i / 20; lat = dep[0] + ratio * (arr[0] - dep[0]), lon likewise
sample_point(dep, arr, i) ==
    <<dep[1] + (i * (arr[1] - dep[1])) \div 20,
      dep[2] + (i * (arr[2] - dep[2])) \div 20>>

\* the inner loop over airports_df.iterrows(): min_distance after the rows
\* of airports, starting from min_distance
RECURSIVE nearest_airport(_, _, _)
nearest_airport(point, airports, min_distance) ==
    IF airports = {}
    THEN min_distance
    ELSE LET airport == CHOOSE row \in airports : TRUE
             distance == geodesic(point, coord(airport))
         IN  nearest_airport(point, airports \ {airport},
                             min(min_distance, distance))

\* the outer loop from point i on, with the maximum found so far
RECURSIVE sample_points(_, _, _, _, _)
sample_points(dep, arr, airports, i, max_distance_to_nearest_airport) ==
    IF i >= num_points
    THEN max_distance_to_nearest_airport
    ELSE sample_points(dep, arr, airports, i + 1,
             max(max_distance_to_nearest_airport,
                 nearest_airport(sample_point(dep, arr, i), airports, inf)))

calculate_etops_requirement(dep, arr, airports) ==
    sample_points(dep, arr, airports, 0, 0)

\* route_distance and etops_required_km of the route analysis; neither call
\* raises
route_metrics(dep, arr, airports) ==
    [raised |-> "none",
     route_distance |-> geodesic(dep, arr),
     etops_required_km |-> calculate_etops_requirement(dep, arr, airports)]

\* etops_required_min and etops_compliant.  A Speed of 0 divides by zero:
\* a numpy value gives inf (the route is then not compliant), a Python int
\* raises ZeroDivisionError.
etops_checks(a, r) ==
    IF a.Speed = 0
    THEN { [raised |-> "none", etops_required_min |-> Rat(inf, 1),
            etops_compliant |-> FALSE],
           [raised |-> "ZeroDivisionError",
            etops_required_min |-> Rat(0, 1), etops_compliant |-> FALSE] }
    ELSE { [raised |-> "none",
            etops_required_min |-> etops_required_min(a, r),
            etops_compliant |-> etops_compliant(a, r)] }

GeoAircraftRows ==
    [Capacity : {10}, Speed : {900, 0, -900}, ETOPS : {120, 180},
     CO2_kg_per_km : {1}, SDG_Score : {82}]

InitGeo ==
    /\ pc = "selected"
    /\ airports_df \in SUBSET AirportRows
    /\ dep_coord \in {coord(airport) : airport \in AirportRows}
    /\ arr_coord \in {coord(airport) : airport \in AirportRows} \ {dep_coord}
    /\ aircraft \in GeoAircraftRows
    /\ route = NoRoute
    /\ etops_check = NoCheck
    /\ args = NoArgs
    /\ passengers = 0
    /\ score = 0
    /\ score_data = NoScore
    /\ title_data = NoTitle
    /\ ChallengeIdle

\* route_distance = geodesic(...).km; etops_required_km =
\* calculate_etops_requirement(dep_coord, arr_coord, airports_df)
CalculateRouteMetrics ==
    /\ pc = "selected"
    /\ route' = route_metrics(dep_coord, arr_coord, airports_df)
    /\ pc' = "measured"
    /\ UNCHANGED <<args, passengers, aircraft, score, score_data, title_data,
                   airports_df, dep_coord, arr_coord, etops_check>>
    /\ UNCHANGED challengeVars

\* etops_required_min = (etops_required_km / aircraft['Speed']) * 60;
\* etops_compliant = etops_required_min <= aircraft['ETOPS']
CheckEtops ==
    /\ pc = "measured"
    /\ etops_check' \in etops_checks(aircraft, route)
    /\ pc' = "decided"
    /\ UNCHANGED <<args, passengers, aircraft, route, score, score_data,
                   title_data, airports_df, dep_coord, arr_coord>>
    /\ UNCHANGED challengeVars

NextGeo == CalculateRouteMetrics \/ CheckEtops

SpecGeo == InitGeo /\ [][NextGeo]_vars

(***************************************************************************)
(* Claims about the geometry (checked under SpecGeo).                      *)
(***************************************************************************)
Measured == pc \in {"measured", "decided"}

SetMin(S) == CHOOSE x \in S : \A y \in S : x <= y

SetMax(S) == CHOOSE x \in S : \A y \in S : x >= y

\* the point at ratio i / 20 of the straight line from dep_coord to
\* arr_coord in the (latitude, longitude) plane
PointAt(i) ==
    <<((20 - i) * dep_coord[1] + i * arr_coord[1]) \div 20,
      ((20 - i) * dep_coord[2] + i * arr_coord[2]) \div 20>>

\* the distance from the point at ratio i / 20 to the nearest airport
NearestAt(i) ==
    SetMin({geodesic(PointAt(i), coord(airport)) : airport \in airports_df})

\* C12: for a non-empty table, calculate_etops_requirement returns the
\* maximum, over exactly the 21 points at ratios i / 20 (i = 0..20) of the
\* linear interpolation between departure and arrival, of the minimum
\* distance from the point to any airport of the table.
C12_MaxOfMinOver21Points ==
    (Measured /\ airports_df # {}) =>
        route.etops_required_km = SetMax({NearestAt(i) : i \in 0..20})

\* departure and arrival are airports of the table and the requirement is
\* met strictly inside the route
C12_Witness ==
    /\ Measured
    /\ airports_df # {}
    /\ NearestAt(0) = 0
    /\ NearestAt(20) = 0
    /\ route.etops_required_km > 0
    /\ route.etops_required_km < route.route_distance

\* C13: with an empty airport table the ETOPS diversion calculation fails
\* with InvalidInputError instead of returning a distance.
C13_EmptyTableRejected ==
    (Measured /\ airports_df = {}) => route.raised = "InvalidInputError"

\* C14: when departure and arrival are both airports of the table, the
\* returned requirement is at most the direct distance between them.
C14_BoundedByDirectDistance ==
    (/\ Measured
     /\ \E airport \in airports_df : coord(airport) = dep_coord
     /\ \E airport \in airports_df : coord(airport) = arr_coord)
        => route.etops_required_km <= route.route_distance

\* C16: the required ETOPS minutes are requiredDiversionKm / cruiseSpeedKmh
\* * 60, and with a cruise speed <= 0 the computation fails with
\* InvalidInputError instead of producing a value for the compliance
\* decision.
C16_RequiredMinutes ==
    pc = "decided" =>
        IF aircraft.Speed > 0
        THEN /\ etops_check.raised = "none"
             /\ route.etops_required_km # inf =>
                   etops_check.etops_required_min.num * aircraft.Speed
                      = route.etops_required_km * 60
                           * etops_check.etops_required_min.den
        ELSE etops_check.raised = "InvalidInputError"


C17_IndexCountsCompleted ==
    /\ [](/\ current_route_index \in 0..10
          /\ Cardinality(CompletedEntries) = current_route_index
          /\ CompletedEntries = 1..current_route_index)
    /\ [][CompleteRoute =>
             /\ current_route_index' = current_route_index + 1
             /\ Len(challenge_routes') = Len(challenge_routes)
             /\ \A i \in 1..Len(challenge_routes) :
                   i # current_route_index + 1
                      => challenge_routes'[i] = challenge_routes[i]
             /\ challenge_routes'[current_route_index + 1]
                   # challenge_routes[current_route_index + 1]]_vars

\* five routes of a challenge are complete, five are not
C17_Witness ==
    /\ pc = "complete"
    /\ current_route_index = 5
    /\ CompletedEntries = 1..5
    /\ ~challenge_routes[6].completed

(***************************************************************************)
(* The mode selector.  The sidebar selectbox offers two values; the script *)
(* then branches on game_mode: "challenge_10_routes" and                   *)
(* "budget_constraint" have branches of their own, every other value runs  *)
(* the normal route planning.  No value of the selectbox is                *)
(* "challenge_10_routes", so the start and complete buttons of the         *)
(* challenge are not among the steps of this specification.                *)
(***************************************************************************)
\* the options of st.sidebar.selectbox
ModeOptions == {"route_planning", "challenge_mode"}

\* another mode is selected: the script runs again, through the route
\* planning branch, with the widgets as they are
SelectMode ==
    /\ \E m \in ModeOptions :
          /\ m # game_mode
          /\ game_mode' = m
    /\ RouteAnalysis(aircraft, route, passengers)
    /\ UNCHANGED <<challenge_routes, current_route_index,
                   challenge_total_score, avg_score>>
    /\ UNCHANGED geoVars

\* the button of the block "if st.session_state.game_mode ==
\* 'challenge_mode'": balloons and a notice, no session state is written
AnnounceChallenge ==
    /\ game_mode = "challenge_mode"
    /\ pc' = "announced"
    /\ UNCHANGED <<args, passengers, aircraft, route, score, score_data,
                   title_data>>
    /\ UNCHANGED challengeVars
    /\ UNCHANGED geoVars

NextApp ==
    \/ SelectMode
    \/ AnnounceChallenge
    \/ SelectAircraft
    \/ SelectRoute
    \/ EnterPassengers

SpecApp == InitRoute /\ [][NextApp]_vars

\* C18: a player who selects the challenge option of the mode selector
\* reaches the 10-route challenge: the selected value enables the branch
\* that offers start (and, after it, complete-current-route), so that a
\* state with challenge index > 0 can follow.
C18_ChallengeOptionStartsChallenge ==
    game_mode = "challenge_mode" => ENABLED StartChallenge

(***************************************************************************)
(* Claims about the rounding of the score (checked under SpecScore).       *)
(***************************************************************************)
\* the three integer sub-scores of the returned dict
IntegerPart ==
    score_data.etops_score + score_data.environmental_score
    + score_data.efficiency_score

\* the sum of the four reported sub-scores
ReportedSum == IntegerPart + score_data.aircraft_score

\* four times the unrounded total: the unrounded aircraft value is
\* aircraft_sdg_score (in tenths) / 4
UnroundedTotal_x4 == 4 * IntegerPart + args.aircraft_sdg_score

\* C11: total_score is the unrounded sum etops + environmental + efficiency
\* + (sdgScore / 10) * 25 rounded once to the nearest integer (an exact
\* half to the even neighbour, as round() does); the rounded aircraft
\* sub-score only appears in the breakdown.  The double sum 10 + 16.5 and
\* 15 + 16.5 lies just below the half and rounds down.
C11_TotalRoundedOnce ==
    (pc = "scored" /\ InDomain(args)) =>
        LET d == 4 * score_data.total_score - UnroundedTotal_x4
        IN  /\ d \in -2..2
            /\ (d \in {-2, 2}
                /\ ~(args.aircraft_sdg_score = 66 /\ IntegerPart \in {10, 15}))
                  => score_data.total_score % 2 = 0
            /\ (args.aircraft_sdg_score = 66 /\ IntegerPart \in {10, 15})
                  => score_data.total_score = IntegerPart + 16
            /\ 4 * score_data.aircraft_score - args.aircraft_sdg_score
                  \in -2..2

\* a call whose total is not the sum of the reported sub-scores: the
\* unrounded 0.5 entered the total
C11_Witness ==
    /\ pc = "scored"
    /\ InDomain(args)
    /\ args.aircraft_sdg_score = 2
    /\ IntegerPart = 15
    /\ score_data.aircraft_score = 0
    /\ score_data.total_score = 16

\* C19: for every in-domain input with sdgScore in steps of
\* 0.1 the total equals the sum of the four reported sub-scores.
C19_BreakdownAddsUp ==
    (pc = "scored" /\ InDomain(args)) => score_data.total_score = ReportedSum

====
